---- MODULE Spec2Model ----
(***************************************************************************)
(* Model of the guardrails engine of the UWS WhatsApp chatbot              *)
(* (src/src/services/guardrails.py): the rule catalog, the relevance       *)
(* score, the per-rule pattern matching, the verdict resolution of         *)
(* GuardrailsEngine.evaluate and the audit write of _log_violation.        *)
(*                                                                         *)
(* Messages are strings.  Floats are kept exact: the relevance score is    *)
(* held in tenths (total_matches / 10) and a confidence k / P is the pair  *)
(* <<k, P>>; every comparison the code makes on them is made on the        *)
(* rationals (no value of the code falls on a rounding edge: 3/10 and the  *)
(* literal 0.3 are the same double).                                       *)
(***************************************************************************)
EXTENDS Integers, Sequences, FiniteSets, TLC

(***************************************************************************)
(* Strings: str.lower(), the `in` substring test, and the subset of the    *)
(* regular-expression language the catalog uses.                           *)
(***************************************************************************)
UpperAlpha == "ABCDEFGHIJKLMNOPQRSTUVWXYZ"
LowerAlpha == "abcdefghijklmnopqrstuvwxyz"
Digits == "0123456789_"

CharAt(s, i) == SubSeq(s, i, i)

CharsOf(s) == {CharAt(s, i) : i \in 1..Len(s)}

\* \w of the re module
WordChars == CharsOf(UpperAlpha) \cup CharsOf(LowerAlpha) \cup CharsOf(Digits)

LowerChar(c) ==
    IF c \in CharsOf(UpperAlpha)
    THEN CharAt(LowerAlpha, CHOOSE i \in 1..Len(UpperAlpha) : CharAt(UpperAlpha, i) = c)
    ELSE c

RECURSIVE Lower(_)
Lower(s) == IF Len(s) = 0 THEN "" ELSE LowerChar(CharAt(s, 1)) \o Lower(SubSeq(s, 2, Len(s)))

\* the literal w occurs in s starting at position i
At(s, i, w) == i >= 1 /\ i + Len(w) - 1 <= Len(s) /\ SubSeq(s, i, i + Len(w) - 1) = w

\* Python's  w in s
Contains(s, w) == \E i \in 1..(Len(s) + 1) : At(s, i, w)

IsWordAt(s, i) == i >= 1 /\ i <= Len(s) /\ CharAt(s, i) \in WordChars

\* \b between position i - 1 and position i of s
Boundary(s, i) == IsWordAt(s, i - 1) # IsWordAt(s, i)

\* .* consumes s[a .. b-1]: no newline in it
DotStar(s, a, b) == \A k \in a..(b - 1) : CharAt(s, k) # "\n"

(***************************************************************************)
(* The four shapes of pattern in the catalog, as data:                     *)
(*   Word(H)          \b(h1|h2|..)\b                                       *)
(*   WordUnless(H,T)  \b(h1|..)\b(?!.*\b(t1|..)\b)                         *)
(*   Then(H,T)        (h1|..).*(t1|..)                                     *)
(*   WordThen(H,T)    \b(h1|..).*(t1|..)                                   *)
(***************************************************************************)
Word(H) == [pre |-> TRUE, head |-> H, post |-> TRUE, kind |-> "end", tail |-> {}]
WordUnless(H, T) == [pre |-> TRUE, head |-> H, post |-> TRUE, kind |-> "unless", tail |-> T]
Then(H, T) == [pre |-> FALSE, head |-> H, post |-> FALSE, kind |-> "then", tail |-> T]
WordThen(H, T) == [pre |-> TRUE, head |-> H, post |-> FALSE, kind |-> "then", tail |-> T]

\* the rest of pattern p matches s from position e (just after the head)
TailMatches(p, s, e) ==
    CASE p.kind = "end" -> TRUE
      [] p.kind = "unless" ->
            ~ \E j \in e..Len(s), t \in p.tail :
                /\ DotStar(s, e, j)
                /\ Boundary(s, j)
                /\ At(s, j, t)
                /\ Boundary(s, j + Len(t))
      [] p.kind = "then" ->
            \E j \in e..Len(s), t \in p.tail : DotStar(s, e, j) /\ At(s, j, t)

\* re.search(p, s, re.IGNORECASE): an unanchored search; the patterns are
\* written in lower case, so ignoring case is matching on the lowered text
ReSearch(p, s) ==
    LET t == Lower(s) IN
    \E i \in 1..Len(t), h \in p.head :
        /\ At(t, i, h)
        /\ p.pre => Boundary(t, i)
        /\ p.post => Boundary(t, i + Len(h))
        /\ TailMatches(p, t, i + Len(h))

(***************************************************************************)
(* The enumerations and the rule catalog.                                  *)
(***************************************************************************)
ViolationType == {"off_topic", "inappropriate_content", "non_academic",
                  "personal_info_request", "external_service", "harmful_content"}
Severity == {"low", "medium", "high", "critical"}
Action == {"allow", "warn", "redirect", "block"}

MsgOffTopic == "I'm here to help with UWS academic topics, courses, and university services. How can I assist you with your studies?"
MsgPersonalInfo == "I cannot and will not ask for or handle personal sensitive information. For account-related issues, please contact UWS student services directly."
MsgInappropriate == "I cannot assist with inappropriate content. Please keep our conversation focused on UWS academic topics and services."
MsgExternal == "I can only help with UWS-related academic information and services. For external services, please use appropriate channels."
MsgDishonesty == "I cannot help with academic dishonesty. I'm here to guide you to appropriate UWS resources for legitimate academic support."
MsgGeneric == "I'm designed to help with UWS academic matters. Please ask about courses, university services, or academic support."

_initialize_rules == <<
    [name |-> "non_academic_topics",
     violation_type |-> "off_topic", severity |-> "medium", action |-> "redirect",
     patterns |-> <<
        Word({"weather", "sports", "entertainment", "celebrity", "gossip", "politics", "news"}),
        WordUnless({"shopping", "buying", "selling", "price", "cost", "money"},
                   {"tuition", "fees", "scholarship"}),
        Word({"dating", "relationship", "personal", "private", "family"}),
        WordUnless({"job", "career", "employment"},
                   {"career services", "placement", "internship"}),
        WordUnless({"travel", "vacation", "holiday"}, {"study abroad", "exchange"}) >>,
     redirect_message |-> MsgOffTopic],
    [name |-> "personal_info_fishing",
     violation_type |-> "personal_info_request", severity |-> "high", action |-> "block",
     patterns |-> <<
        Word({"password", "pin", "social security", "bank", "credit card", "personal details"}),
        Word({"home address", "phone number", "email password", "login credentials"}),
        Then({"what"}, {"password", "pin", "address", "phone"}),
        Then({"give me", "tell me", "share"}, {"personal", "private", "confidential"}) >>,
     redirect_message |-> MsgPersonalInfo],
    [name |-> "inappropriate_content",
     violation_type |-> "inappropriate_content", severity |-> "critical", action |-> "block",
     patterns |-> <<
        Word({"hate", "harassment", "discrimination", "offensive", "inappropriate"}),
        Word({"violent", "harm", "threat", "abuse"}),
        WordUnless({"illegal", "drugs", "alcohol"}, {"policy", "regulation", "academic"}) >>,
     redirect_message |-> MsgInappropriate],
    [name |-> "external_services",
     violation_type |-> "external_service", severity |-> "medium", action |-> "redirect",
     patterns |-> <<
        WordUnless({"google", "search", "browse", "internet", "website"}, {"uws", "university"}),
        WordUnless({"book", "order", "purchase", "buy"}, {"textbook", "academic", "course"}),
        WordUnless({"call", "phone", "contact"}, {"uws", "university", "student services"}) >>,
     redirect_message |-> MsgExternal],
    [name |-> "academic_integrity",
     violation_type |-> "harmful_content", severity |-> "high", action |-> "block",
     patterns |-> <<
        Word({"cheat", "cheating", "plagiarism", "copy", "steal"}),
        Then({"do my", "complete my", "write my"},
             {"assignment", "essay", "exam", "test", "homework"}),
        WordThen({"answers to", "solutions for"}, {"exam", "test", "quiz", "assignment"}),
        WordThen({"hack", "bypass", "circumvent"}, {"system", "exam", "test"}) >>,
     redirect_message |-> MsgDishonesty] >>

_load_academic_keywords == <<
    "course", "module", "lecture", "tutorial", "seminar", "assignment", "exam", "test", "quiz",
    "study", "research", "library", "academic", "degree", "qualification", "credit", "grade",
    "enrollment", "registration", "timetable", "schedule", "syllabus", "curriculum",
    "professor", "lecturer", "tutor", "supervisor", "advisor", "faculty", "department",
    "campus", "building", "classroom", "laboratory", "lab", "workshop", "placement",
    "internship", "thesis", "dissertation", "project", "coursework", "assessment" >>

_load_uws_keywords == <<
    "uws", "university of the west of scotland", "paisley", "ayr", "dumfries", "london",
    "student services", "registry", "admissions", "student union", "accommodation",
    "blackboard", "moodle", "student portal", "library services", "it services",
    "careers service", "counselling", "disability services", "international office",
    "finance office", "graduation", "student card", "student discount", "parking" >>

(***************************************************************************)
(* The pure helpers of the engine.                                         *)
(***************************************************************************)
Min(a, b) == IF a <= b THEN a ELSE b

\* sum(1 for keyword in keywords if keyword in message)
CountMatches(keywords, msg) ==
    Cardinality({i \in 1..Len(keywords) : Contains(msg, keywords[i])})

\* the number of places of msg where the keyword starts
Occurrences(msg, keyword) ==
    Cardinality({i \in 1..(Len(msg) + 1) : At(msg, i, keyword)})

\* the relevance score with a keyword counted once per occurrence
_calculate_academic_relevance_PerOccurrence(msg) ==
    LET Hits(keywords) ==
            LET RECURSIVE Sum(_)
                Sum(n) == IF n = 0 THEN 0 ELSE Occurrences(msg, keywords[n]) + Sum(n - 1)
            IN  Sum(Len(keywords))
        total_matches == Hits(_load_academic_keywords) + (Hits(_load_uws_keywords) * 2)
    IN  Min(total_matches, 10)

\* the relevance score without the cap of min(..., 1.0)
_calculate_academic_relevance_NoCap(msg) ==
    LET academic_matches == CountMatches(_load_academic_keywords, msg)
        uws_matches == CountMatches(_load_uws_keywords, msg)
    IN  academic_matches + (uws_matches * 2)

\* min(total_matches / 10, 1.0), in tenths
_calculate_academic_relevance(msg) ==
    LET academic_matches == CountMatches(_load_academic_keywords, msg)
        uws_matches == CountMatches(_load_uws_keywords, msg)
        total_matches == academic_matches + (uws_matches * 2)
    IN  Min(total_matches, 10)

\* a / b > 0.3  on the rationals (b > 0)
Above03(c) == 10 * c[1] > 3 * c[2]

\* _check_rule with a loop that stops at the first matching pattern
_check_rule_FirstMatchOnly(msg, rule) ==
    LET total_patterns == Len(rule.patterns)
        violation_count ==
            IF \E i \in 1..total_patterns : ReSearch(rule.patterns[i], msg)
            THEN 1 ELSE 0
        confidence == IF total_patterns > 0 THEN <<violation_count, total_patterns>> ELSE <<0, 1>>
        is_violated == Above03(confidence) \/ violation_count >= 1
    IN  <<is_violated, confidence>>

\* _check_rule with the ratio threshold as the only test
_check_rule_RatioOnly(msg, rule) ==
    LET total_patterns == Len(rule.patterns)
        violation_count ==
            Cardinality({i \in 1..total_patterns : ReSearch(rule.patterns[i], msg)})
        confidence == IF total_patterns > 0 THEN <<violation_count, total_patterns>> ELSE <<0, 1>>
        is_violated == Above03(confidence)
    IN  <<is_violated, confidence>>

\* <<is_violated, confidence>> with confidence the pair <<violation_count, total_patterns>>
\* (<<0, 1>> is the 0 of an empty pattern list)
_check_rule(msg, rule) ==
    LET total_patterns == Len(rule.patterns)
        violation_count ==
            Cardinality({i \in 1..total_patterns : ReSearch(rule.patterns[i], msg)})
        confidence == IF total_patterns > 0 THEN <<violation_count, total_patterns>> ELSE <<0, 1>>
        is_violated == Above03(confidence) \/ violation_count >= 1
    IN  <<is_violated, confidence>>

InSeq(x, s) == \E i \in 1..Len(s) : s[i] = x

\* _generate_response_message without the early return for an empty list
_generate_response_message_NoEmptyCase(violations, triggered_rules) ==
    IF InSeq("inappropriate_content", violations) THEN MsgInappropriate
    ELSE IF InSeq("personal_info_request", violations) THEN MsgPersonalInfo
    ELSE IF InSeq("harmful_content", violations) THEN MsgDishonesty
    ELSE IF InSeq("off_topic", violations) \/ InSeq("non_academic", violations) THEN MsgOffTopic
    ELSE IF InSeq("external_service", violations) THEN MsgExternal
    ELSE MsgGeneric

\* _generate_response_message answering for the violation listed first
_generate_response_message_FirstListed(violations, triggered_rules) ==
    IF violations = <<>> THEN ""
    ELSE IF violations[1] = "inappropriate_content" THEN MsgInappropriate
    ELSE IF violations[1] = "personal_info_request" THEN MsgPersonalInfo
    ELSE IF violations[1] = "harmful_content" THEN MsgDishonesty
    ELSE IF violations[1] \in {"off_topic", "non_academic"} THEN MsgOffTopic
    ELSE IF violations[1] = "external_service" THEN MsgExternal
    ELSE MsgGeneric

\* _generate_response_message with the external-service branch tested before the
\* off-topic branch
_generate_response_message_ExternalFirst(violations, triggered_rules) ==
    IF violations = <<>> THEN ""
    ELSE IF InSeq("inappropriate_content", violations) THEN MsgInappropriate
    ELSE IF InSeq("personal_info_request", violations) THEN MsgPersonalInfo
    ELSE IF InSeq("harmful_content", violations) THEN MsgDishonesty
    ELSE IF InSeq("external_service", violations) THEN MsgExternal
    ELSE IF InSeq("off_topic", violations) \/ InSeq("non_academic", violations) THEN MsgOffTopic
    ELSE MsgGeneric

_generate_response_message(violations, triggered_rules) ==
    IF violations = <<>> THEN ""
    ELSE IF InSeq("inappropriate_content", violations) THEN MsgInappropriate
    ELSE IF InSeq("personal_info_request", violations) THEN MsgPersonalInfo
    ELSE IF InSeq("harmful_content", violations) THEN MsgDishonesty
    ELSE IF InSeq("off_topic", violations) \/ InSeq("non_academic", violations) THEN MsgOffTopic
    ELSE IF InSeq("external_service", violations) THEN MsgExternal
    ELSE MsgGeneric

\* is_uws_related, lines 327-330, 337-338: the lists local to the method
uws_indicators ==
    << "uws", "university of the west of scotland", "paisley", "ayr", "dumfries",
       "london campus" >>

academic_terms == << "course", "module", "lecture", "exam", "assignment", "library", "student" >>

question_words == << "what", "when", "where", "how", "can", "is", "are", "do", "does" >>

\* any(item in message for item in items)
AnyIn(items, msg) == \E i \in 1..Len(items) : Contains(msg, items[i])

\* is_uws_related with the test of the question words left out
is_uws_related_AcademicOnly(msg) ==
    LET message_lower == Lower(msg)
    IN  IF AnyIn(uws_indicators, message_lower) THEN TRUE
        ELSE AnyIn(academic_terms, message_lower)

\* is_uws_related, lines 322-343: the loop over the indicators returns True on the
\* first hit; after it, the answer is has_academic and has_question
is_uws_related(msg) ==
    LET message_lower == Lower(msg)
        has_academic == AnyIn(academic_terms, message_lower)
        has_question == AnyIn(question_words, message_lower)
    IN  IF AnyIn(uws_indicators, message_lower) THEN TRUE
        ELSE has_academic /\ has_question

(***************************************************************************)
(* The inputs: the messages a caller may send, the user ids, and the       *)
(* number of evaluate calls in flight.  Messages are the examples of the   *)
(* specification and every sentence of at most MaxWords phrases.           *)
(***************************************************************************)
MaxWords == 2
NumCalls == 2

Phrases == {"weather", "what", "password", "hate", "google", "cheat", "UWS exam"}

Examples == {
    "What is my password for the student portal?",
    "When is my Computer Science module exam at Paisley campus?",
    "Can you help me cheat on my exam?",
    "weather today",
    "What time is my lecture?",
    "write my\nessay" }

RECURSIVE Sentences(_)
Sentences(n) ==
    IF n = 0 THEN {""}
    ELSE LET shorter == Sentences(n - 1)
         IN  shorter \cup {IF s = "" THEN w ELSE s \o " " \o w : s \in shorter, w \in Phrases}

\* a message with more than ten weighted keyword hits
KeywordRich ==
    {"UWS Paisley campus library: exam timetable, module coursework and assessment schedule"}

Messages == Examples \cup KeywordRich \cup Sentences(MaxWords)

\* messages with an academic term and no question word
Statements == {"exam", "lecture notes"}

\* the messages is_uws_related is called on
RelatedMessages == Messages \cup Statements

\* the messages of the calls that run concurrently
ConcMessages == {"", "UWS exam", "password hate"}

Users == {"u1", "u2"}

Procs == 1..NumCalls

NumRules == Len(_initialize_rules)

\* message.lower() of every message a caller may send
LowerOf == [m \in Messages \cup ConcMessages |-> Lower(m)]
LoweredMessages == {LowerOf[m] : m \in Messages \cup ConcMessages}

\* The pure helpers tabulated over the inputs (they read only the immutable
\* catalog and keyword lists, so a call's value never changes).
RelevanceOf == [m \in LoweredMessages |-> _calculate_academic_relevance(m)]
CheckOf == [m \in LoweredMessages |-> [i \in 1..NumRules |-> _check_rule(m, _initialize_rules[i])]]
RelatedOf == [m \in RelatedMessages |-> is_uws_related(m)]

(***************************************************************************)
(* State.  Every evaluate call p is a coroutine of one event loop: between *)
(* two awaits it runs alone (cur = p); the only await that suspends is the *)
(* commit of the audit write.                                              *)
(***************************************************************************)
VARIABLES
    engine,       \* "new" before GuardrailsEngine() has run, then "ready"
    malformed,    \* indices of the catalog rules holding an uncompilable pattern
    cur,          \* the call that is running, 0 when the loop is free
    pc,           \* pc[p]: where call p stands
    message,      \* message[p], user[p]: the arguments of call p
    user,
    local,        \* local[p]: the local variables of evaluate in call p
    session,      \* session[p]: the persistence session of call p's audit write
    attempts,     \* attempts[p]: audit writes call p has begun
    outcome,      \* outcome[p]: "none", "pending", "committed" or "failed"
    entry,        \* entry[p]: the log_entry call p has handed to its session
    auditLog,     \* the rows committed to guardrail_logs, in commit order
    result,       \* result[p]: the GuardrailResult returned, or the raised error
    adopted,      \* history: adopted[p] is the index of the catalog rule whose
                  \* <<severity, action>> call p adopted last, 0 when none was
    related,      \* the message is_uws_related was called on and what it returned
    probe,        \* the pure helper a caller has called directly, with its arguments
                  \* and what it returned
    context       \* context[p]: the context argument of call p

vars == <<engine, malformed, cur, pc, message, user, local, session, attempts,
          outcome, entry, auditLog, result, adopted, related, probe, context>>

NoLocal == [message_lower |-> "", violations |-> <<>>, triggered_rules |-> <<>>,
            max_severity |-> "low", final_action |-> "allow",
            confidence_scores |-> <<>>, academic_score |-> 0, rule |-> 0,
            overall_confidence |-> <<0, 1>>, response_message |-> ""]

NoEntry == [user_whatsapp_id |-> ""]
NoResult == [kind |-> "none"]
NoAnswer == [asked |-> "", answered |-> FALSE, answer |-> FALSE]
NoProbe == [fn |-> "none"]

\* context: Dict = None, and a dictionary a caller may pass
NoContext == [given |-> FALSE]
Contexts == {NoContext, [given |-> TRUE, last_topic |-> "admissions"]}

InitWith(bad) ==
    /\ engine = "new"
    /\ malformed = bad
    /\ cur = 0
    /\ pc = [p \in Procs |-> "idle"]
    /\ message = [p \in Procs |-> ""]
    /\ user = [p \in Procs |-> ""]
    /\ local = [p \in Procs |-> NoLocal]
    /\ session = [p \in Procs |-> "none"]
    /\ attempts = [p \in Procs |-> 0]
    /\ outcome = [p \in Procs |-> "none"]
    /\ entry = [p \in Procs |-> NoEntry]
    /\ auditLog = <<>>
    /\ result = [p \in Procs |-> NoResult]
    /\ adopted = [p \in Procs |-> 0]
    /\ related = NoAnswer
    /\ probe = NoProbe
    /\ context = [p \in Procs |-> NoContext]

\* the shipped catalog: every pattern compiles
Init == InitWith({})

\* GuardrailsEngine(): builds the catalog and the keyword lists; nothing is compiled
\* or validated
Construct ==
    /\ engine = "new"
    /\ engine' = "ready"
    /\ UNCHANGED <<malformed, cur, pc, message, user, local, session, attempts,
                   outcome, entry, auditLog, result, adopted, related, probe, context>>

\* evaluate, lines 180-188: the locals of a call on message m, with the relevance
\* score
Locals(m) ==
    [NoLocal EXCEPT !.message_lower = LowerOf[m],
                    !.academic_score = RelevanceOf[LowerOf[m]]]

\* evaluate whose relevance score is raised to 1.0 when a context is passed
CallWith_ContextTrusted(p, m, u, c) ==
    /\ engine = "ready"
    /\ cur = 0
    /\ pc[p] = "idle"
    /\ cur' = p
    /\ message' = [message EXCEPT ![p] = m]
    /\ user' = [user EXCEPT ![p] = u]
    /\ context' = [context EXCEPT ![p] = c]
    /\ local' = [local EXCEPT ![p] =
                    IF c.given THEN [Locals(m) EXCEPT !.academic_score = 10] ELSE Locals(m)]
    /\ pc' = [pc EXCEPT ![p] = "seed"]
    /\ UNCHANGED <<engine, malformed, session, attempts, outcome, entry, auditLog, result,
                   adopted, related, probe>>

\* evaluate is called with a context: lines 178-188 run; the context is bound and
\* never read
CallWith(p, m, u, c) ==
    /\ engine = "ready"
    /\ cur = 0
    /\ pc[p] = "idle"
    /\ cur' = p
    /\ message' = [message EXCEPT ![p] = m]
    /\ user' = [user EXCEPT ![p] = u]
    /\ context' = [context EXCEPT ![p] = c]
    /\ local' = [local EXCEPT ![p] = Locals(m)]
    /\ pc' = [pc EXCEPT ![p] = "seed"]
    /\ UNCHANGED <<engine, malformed, session, attempts, outcome, entry, auditLog, result,
                   adopted, related, probe>>

\* evaluate is called without a context
Call(p, m, u) == CallWith(p, m, u, NoContext)

\* the pre-seed test with the threshold included: academic_score <= 0.3
LowRelevance_Inclusive(score) == score <= 3

\* academic_score < 0.3, the score held in tenths
LowRelevance(score) == score < 3

\* the pre-seed appending the relevance score as a confidence sample
PreSeed_WithSample(l) ==
    IF LowRelevance(l.academic_score)
    THEN [l EXCEPT !.violations = Append(@, "off_topic"),
                   !.triggered_rules = Append(@, "low_academic_relevance"),
                   !.confidence_scores = Append(@, <<l.academic_score, 10>>),
                   !.max_severity = "medium",
                   !.final_action = "redirect",
                   !.rule = 1]
    ELSE [l EXCEPT !.rule = 1]

\* evaluate, lines 190-195: the low-relevance pre-seed, and the loop of line 198
\* set on the first rule
PreSeed(l) ==
    IF LowRelevance(l.academic_score)
    THEN [l EXCEPT !.violations = Append(@, "off_topic"),
                   !.triggered_rules = Append(@, "low_academic_relevance"),
                   !.max_severity = "medium",
                   !.final_action = "redirect",
                   !.rule = 1]
    ELSE [l EXCEPT !.rule = 1]

\* evaluate with its three lists kept on the engine instead of in locals: a call
\* starts from what a call suspended at its commit has appended
Seed_SharedLists(p) ==
    /\ cur = p
    /\ pc[p] = "seed"
    /\ LET others == {q \in Procs : pc[q] = "commit"}
           start == IF others = {} THEN local[p]
                    ELSE LET q == CHOOSE o \in others : TRUE
                         IN  [local[p] EXCEPT
                                 !.violations = local[q].violations,
                                 !.triggered_rules = local[q].triggered_rules,
                                 !.confidence_scores = local[q].confidence_scores]
       IN  local' = [local EXCEPT ![p] = PreSeed(start)]
    /\ pc' = [pc EXCEPT ![p] = "rules"]
    /\ UNCHANGED <<engine, malformed, cur, message, user, session, attempts,
                   outcome, entry, auditLog, result, adopted, related, probe, context>>

Seed(p) ==
    /\ cur = p
    /\ pc[p] = "seed"
    /\ local' = [local EXCEPT ![p] = PreSeed(@)]
    /\ pc' = [pc EXCEPT ![p] = "rules"]
    /\ UNCHANGED <<engine, malformed, cur, message, user, session, attempts,
                   outcome, entry, auditLog, result, adopted, related, probe, context>>

\* the escalation without the test of the current severity: every triggered high
\* or critical rule is adopted, so the last one wins
Escalate_LastWins(l, rule) ==
    IF rule.severity \in {"critical", "high"}
    THEN [l EXCEPT !.max_severity = rule.severity, !.final_action = rule.action]
    ELSE IF rule.severity = "medium" /\ l.max_severity = "low"
    THEN [l EXCEPT !.max_severity = rule.severity, !.final_action = rule.action]
    ELSE l

\* the escalation with one test for every class: a rule is adopted only while the
\* severity is still low, so the pre-seed is never replaced
Escalate_OnlyFromLow(l, rule) ==
    IF l.max_severity = "low"
    THEN [l EXCEPT !.max_severity = rule.severity, !.final_action = rule.action]
    ELSE l

\* the escalation that adopts the worst violation: a rule is adopted when its
\* severity is above the current one
Escalate_WorstWins(l, rule) ==
    LET rank == [s \in Severity |->
                    CASE s = "low" -> 0 [] s = "medium" -> 1 [] s = "high" -> 2
                      [] s = "critical" -> 3]
    IN  IF rank[rule.severity] > rank[l.max_severity]
        THEN [l EXCEPT !.max_severity = rule.severity, !.final_action = rule.action]
        ELSE l

\* the escalation with the MEDIUM branch not tested against the current severity:
\* a triggered MEDIUM rule is always adopted
Escalate_MediumAlways(l, rule) ==
    IF rule.severity \in {"critical", "high"} /\ l.max_severity \in {"low", "medium"}
    THEN [l EXCEPT !.max_severity = rule.severity, !.final_action = rule.action]
    ELSE IF rule.severity = "medium"
    THEN [l EXCEPT !.max_severity = rule.severity, !.final_action = rule.action]
    ELSE l

\* the escalation where a high or critical rule raises the severity of a call that
\* already left LOW but leaves its action as it is
Escalate_SeverityAlone(l, rule) ==
    IF rule.severity \in {"critical", "high"} /\ l.max_severity \in {"low", "medium"}
    THEN [l EXCEPT !.max_severity = rule.severity,
                   !.final_action = IF l.max_severity = "low" THEN rule.action ELSE @]
    ELSE IF rule.severity = "medium" /\ l.max_severity = "low"
    THEN [l EXCEPT !.max_severity = rule.severity, !.final_action = rule.action]
    ELSE l

\* evaluate, lines 206-212: the escalation of <<max_severity, final_action>> by a
\* triggered rule
Escalate(l, rule) ==
    IF rule.severity \in {"critical", "high"} /\ l.max_severity \in {"low", "medium"}
    THEN [l EXCEPT !.max_severity = rule.severity, !.final_action = rule.action]
    ELSE IF rule.severity = "medium" /\ l.max_severity = "low"
    THEN [l EXCEPT !.max_severity = rule.severity, !.final_action = rule.action]
    ELSE l

\* the loop body with the three appends moved out of `if violation_found`
ApplyRule_AppendAlways(l) ==
    LET rule == _initialize_rules[l.rule]
        checked == CheckOf[l.message_lower][l.rule]
        appended == [l EXCEPT !.rule = @ + 1,
                              !.violations = Append(@, rule.violation_type),
                              !.triggered_rules = Append(@, rule.name),
                              !.confidence_scores = Append(@, checked[2])]
    IN  IF checked[1] THEN Escalate(appended, rule) ELSE appended

\* evaluate, lines 198-212: one iteration of the loop over the catalog
ApplyRule(l) ==
    LET rule == _initialize_rules[l.rule]
        checked == CheckOf[l.message_lower][l.rule]
        violation_found == checked[1]
        confidence == checked[2]
        next == [l EXCEPT !.rule = @ + 1]
    IN  IF violation_found
        THEN Escalate([next EXCEPT !.violations = Append(@, rule.violation_type),
                                   !.triggered_rules = Append(@, rule.name),
                                   !.confidence_scores = Append(@, confidence)],
                      rule)
        ELSE next

RuleStep(p) ==
    /\ cur = p
    /\ pc[p] = "rules"
    /\ local[p].rule <= NumRules
    /\ local[p].rule \notin malformed
    /\ LET after == ApplyRule(local[p])
       IN  /\ local' = [local EXCEPT ![p] = after]
           /\ adopted' = [adopted EXCEPT ![p] =
                   IF after.max_severity # local[p].max_severity
                   THEN local[p].rule ELSE @]
    /\ UNCHANGED <<engine, malformed, cur, pc, message, user, session, attempts,
                   outcome, entry, auditLog, result, related, probe, context>>

\* a <= b for confidences <<k, P>> (P > 0)
ConfLeq(a, b) == a[1] * b[2] <= b[1] * a[2]

\* max(confidence_scores): the first of the greatest elements
RECURSIVE MaxConf(_)
MaxConf(scores) ==
    IF Len(scores) = 1 THEN scores[1]
    ELSE LET rest == MaxConf(Tail(scores))
         IN  IF ConfLeq(rest, scores[1]) THEN scores[1] ELSE rest

\* the overall confidence without the fallback on the relevance score
Finish_ZeroConfidence(l) ==
    [l EXCEPT !.overall_confidence =
                  IF l.confidence_scores # <<>>
                  THEN MaxConf(l.confidence_scores)
                  ELSE <<0, 10>>,
              !.response_message =
                  _generate_response_message(l.violations, l.triggered_rules)]

\* the overall confidence taken from the first sample instead of the greatest
Finish_FirstSample(l) ==
    [l EXCEPT !.overall_confidence =
                  IF l.confidence_scores # <<>>
                  THEN l.confidence_scores[1]
                  ELSE <<l.academic_score, 10>>,
              !.response_message =
                  _generate_response_message(l.violations, l.triggered_rules)]

\* evaluate, lines 214-218: overall confidence and response message
Finish(l) ==
    [l EXCEPT !.overall_confidence =
                  IF l.confidence_scores # <<>>
                  THEN MaxConf(l.confidence_scores)
                  ELSE <<l.academic_score, 10>>,
              !.response_message =
                  _generate_response_message(l.violations, l.triggered_rules)]

\* evaluate, lines 214-221: overall confidence, response message, and the test
\* that decides whether the violation is logged
Respond(p) ==
    /\ cur = p
    /\ pc[p] = "rules"
    /\ local[p].rule > NumRules
    /\ local' = [local EXCEPT ![p] = Finish(@)]
    /\ pc' = [pc EXCEPT ![p] = IF local[p].violations # <<>> THEN "log" ELSE "return"]
    /\ UNCHANGED <<engine, malformed, cur, message, user, session, attempts,
                   outcome, entry, auditLog, result, adopted, related, probe, context>>

\* ", ".join(items)
RECURSIVE JoinComma(_)
JoinComma(items) ==
    IF items = <<>> THEN ""
    ELSE IF Len(items) = 1 THEN items[1]
    ELSE items[1] \o ", " \o JoinComma(Tail(items))

\* the GuardrailLog built from the lower-cased message
LogEntry_Lowered(user_whatsapp_id, violations, msg, triggered_rules, severity, action) ==
    [user_whatsapp_id |-> user_whatsapp_id,
     violation_type |-> JoinComma(violations),
     user_message |-> Lower(msg),
     rule_triggered |-> JoinComma(triggered_rules),
     severity |-> severity,
     action_taken |-> action,
     metadata |-> [violations |-> violations, triggered_rules |-> triggered_rules]]

\* the GuardrailLog of _log_violation, lines 300-312 (the timestamp of the metadata,
\* a clock reading, is left out)
LogEntry(user_whatsapp_id, violations, msg, triggered_rules, severity, action) ==
    [user_whatsapp_id |-> user_whatsapp_id,
     violation_type |-> JoinComma(violations),
     user_message |-> msg,
     rule_triggered |-> JoinComma(triggered_rules),
     severity |-> severity,
     action_taken |-> action,
     metadata |-> [violations |-> violations, triggered_rules |-> triggered_rules]]

\* The stages of _log_violation that run before the commit is awaited, and the
\* failures each can raise.  Every failure is caught by `except Exception`.
LogStages == {"ok", "session", "record", "add"}

\* _log_violation started as a background task: evaluate goes on to return while
\* the commit is pending
LogBegin_FireAndForget(p, stage) ==
    /\ cur = p
    /\ pc[p] = "log"
    /\ attempts' = [attempts EXCEPT ![p] = @ + 1]
    /\ session' = [session EXCEPT ![p] = IF stage = "ok" THEN "open" ELSE "none"]
    /\ outcome' = [outcome EXCEPT ![p] = IF stage = "ok" THEN "pending" ELSE "failed"]
    /\ pc' = [pc EXCEPT ![p] = "return"]
    /\ UNCHANGED <<engine, malformed, cur, message, user, local, entry, auditLog,
                   result, adopted, related, probe, context>>

\* _log_violation, lines 298-315, up to the await of session.commit(): the session
\* is created and entered, the entry is built and added.  A failure of the session
\* factory leaves no session; a later failure leaves the `async with` block, which
\* closes the session, and is then caught and logged.
LogBegin(p, stage) ==
    /\ cur = p
    /\ pc[p] = "log"
    /\ attempts' = [attempts EXCEPT ![p] = @ + 1]
    /\ IF stage = "ok"
       THEN /\ session' = [session EXCEPT ![p] = "open"]
            /\ entry' = [entry EXCEPT ![p] =
                    LogEntry(user[p], local[p].violations, message[p],
                             local[p].triggered_rules, local[p].max_severity,
                             local[p].final_action)]
            /\ outcome' = [outcome EXCEPT ![p] = "pending"]
            /\ pc' = [pc EXCEPT ![p] = "commit"]
            /\ cur' = 0
       ELSE /\ session' = [session EXCEPT ![p] = IF stage = "session" THEN "none" ELSE "closed"]
            /\ outcome' = [outcome EXCEPT ![p] = "failed"]
            /\ pc' = [pc EXCEPT ![p] = "return"]
            /\ UNCHANGED <<entry, cur>>
    /\ UNCHANGED <<engine, malformed, message, user, local, auditLog, result, adopted, related, probe, context>>

\* _log_violation without its `except`: a failed commit leaves evaluate as an error
Commit_Raises(p, ok) ==
    /\ cur = 0
    /\ pc[p] = "commit"
    /\ auditLog' = IF ok THEN Append(auditLog, entry[p]) ELSE auditLog
    /\ outcome' = [outcome EXCEPT ![p] = IF ok THEN "committed" ELSE "failed"]
    /\ session' = [session EXCEPT ![p] = "closed"]
    /\ pc' = [pc EXCEPT ![p] = IF ok THEN "return" ELSE "raised"]
    /\ cur' = IF ok THEN p ELSE 0
    /\ result' = [result EXCEPT ![p] =
            IF ok THEN @ ELSE [kind |-> "raised", error |-> "commit"]]
    /\ UNCHANGED <<engine, malformed, message, user, local, attempts, entry, adopted, related, probe, context>>

\* _log_violation with a retry: a failed commit starts the write again
Commit_Retry(p, ok) ==
    /\ cur = 0
    /\ pc[p] = "commit"
    /\ cur' = p
    /\ auditLog' = IF ok THEN Append(auditLog, entry[p]) ELSE auditLog
    /\ outcome' = [outcome EXCEPT ![p] = IF ok THEN "committed" ELSE "failed"]
    /\ session' = [session EXCEPT ![p] = "closed"]
    /\ pc' = [pc EXCEPT ![p] = IF ok \/ attempts[p] >= 2 THEN "return" ELSE "log"]
    /\ UNCHANGED <<engine, malformed, message, user, local, attempts, entry, result, adopted, related, probe, context>>

\* _log_violation with a session closed by hand after the commit instead of by
\* `async with`: a failed commit skips the close
Commit_LeakOnFailure(p, ok) ==
    /\ cur = 0
    /\ pc[p] = "commit"
    /\ cur' = p
    /\ auditLog' = IF ok THEN Append(auditLog, entry[p]) ELSE auditLog
    /\ outcome' = [outcome EXCEPT ![p] = IF ok THEN "committed" ELSE "failed"]
    /\ session' = [session EXCEPT ![p] = IF ok THEN "closed" ELSE "open"]
    /\ pc' = [pc EXCEPT ![p] = "return"]
    /\ UNCHANGED <<engine, malformed, message, user, local, attempts, entry, result, adopted, related, probe, context>>

\* _log_violation, lines 315-320: the awaited commit ends, in success (the row is
\* stored) or in an exception (caught and logged); either way the `async with`
\* block is left and the session closed, and the coroutine runs on
Commit(p, ok) ==
    /\ cur = 0
    /\ pc[p] = "commit"
    /\ cur' = p
    /\ auditLog' = IF ok THEN Append(auditLog, entry[p]) ELSE auditLog
    /\ outcome' = [outcome EXCEPT ![p] = IF ok THEN "committed" ELSE "failed"]
    /\ session' = [session EXCEPT ![p] = "closed"]
    /\ pc' = [pc EXCEPT ![p] = "return"]
    /\ UNCHANGED <<engine, malformed, message, user, local, attempts, entry, result, adopted, related, probe, context>>

\* the result with is_allowed = (final_action == Action.ALLOW)
GuardrailResult_AllowOnly(l) ==
    [kind |-> "verdict",
     is_allowed |-> l.final_action = "allow",
     violations |-> l.violations,
     severity |-> l.max_severity,
     action |-> l.final_action,
     message |-> l.response_message,
     confidence |-> l.overall_confidence,
     triggered_rules |-> l.triggered_rules]

\* the result with a memory of earlier calls: once a violation is on record in
\* guardrail_logs, nothing is allowed
GuardrailResult_RepeatBlocks(l) ==
    [kind |-> "verdict",
     is_allowed |-> l.final_action # "block" /\ auditLog = <<>>,
     violations |-> l.violations,
     severity |-> l.max_severity,
     action |-> l.final_action,
     message |-> l.response_message,
     confidence |-> l.overall_confidence,
     triggered_rules |-> l.triggered_rules]

\* the GuardrailResult of evaluate, lines 231-239
GuardrailResult(l) ==
    [kind |-> "verdict",
     is_allowed |-> l.final_action # "block",
     violations |-> l.violations,
     severity |-> l.max_severity,
     action |-> l.final_action,
     message |-> l.response_message,
     confidence |-> l.overall_confidence,
     triggered_rules |-> l.triggered_rules]

\* evaluate, lines 198-212: the loop over the rest of the catalog
RECURSIVE Loop(_)
Loop(l) == IF l.rule > NumRules THEN l ELSE Loop(ApplyRule(l))

\* evaluate, lines 178-239, run from its first line to its return with no other
\* call on the engine: the verdict of message m
evaluate(m) == GuardrailResult(Finish(Loop(PreSeed(Locals(m)))))

\* the verdict of each message of a concurrent call when the call runs alone
AloneOf == [m \in ConcMessages |-> evaluate(m)]

\* evaluate, lines 231-239: the verdict goes back to the caller
Return(p) ==
    /\ cur = p
    /\ pc[p] = "return"
    /\ result' = [result EXCEPT ![p] = GuardrailResult(local[p])]
    /\ pc' = [pc EXCEPT ![p] = "done"]
    /\ cur' = 0
    /\ UNCHANGED <<engine, malformed, message, user, local, session, attempts,
                   outcome, entry, auditLog, adopted, related, probe, context>>

\* the steps of call p after it has been made
Steps(p) ==
    \/ Seed(p)
    \/ RuleStep(p)
    \/ Respond(p)
    \/ \E stage \in LogStages : LogBegin(p, stage)
    \/ \E ok \in BOOLEAN : Commit(p, ok)
    \/ Return(p)

\* one evaluate call, on any message
Next ==
    \/ Construct
    \/ \E m \in Messages, u \in Users : Call(1, m, u)
    \/ Steps(1)

Spec == Init /\ [][Next]_vars

\* NumCalls evaluate calls on one engine, interleaved at the awaited commit
NextConc ==
    \/ Construct
    \/ \E p \in Procs, m \in ConcMessages, u \in Users : Call(p, m, u)
    \/ \E p \in Procs : Steps(p)

SpecConc == Init /\ [][NextConc]_vars

\* the messages of calls that differ in their user id and context
CtxMessages == {"UWS exam", "What is my password for the student portal?"}

\* NumCalls evaluate calls on one engine, each with a user id and a context of the
\* caller's choice
NextCtx ==
    \/ Construct
    \/ \E p \in Procs, m \in CtxMessages, u \in Users, c \in Contexts : CallWith(p, m, u, c)
    \/ \E p \in Procs : Steps(p)

SpecCtx == Init /\ [][NextCtx]_vars

(***************************************************************************)
(* A catalog that holds an uncompilable pattern.  The patterns are kept as *)
(* strings and handed to re.search in _check_rule, which compiles them on  *)
(* use: the first search with a malformed pattern raises re.error, and     *)
(* neither _check_rule nor evaluate has a handler.                         *)
(***************************************************************************)
Catalogs == {{}} \cup {{i} : i \in 1..NumRules}

InitCfg == \E bad \in Catalogs : InitWith(bad)

\* evaluate, line 199 with _check_rule, line 247: re.search raises on the rule's
\* malformed pattern and the error leaves evaluate
RaiseStep(p) ==
    /\ cur = p
    /\ pc[p] = "rules"
    /\ local[p].rule <= NumRules
    /\ local[p].rule \in malformed
    /\ result' = [result EXCEPT ![p] = [kind |-> "raised", error |-> "re.error"]]
    /\ pc' = [pc EXCEPT ![p] = "raised"]
    /\ cur' = 0
    /\ UNCHANGED <<engine, malformed, message, user, local, session, attempts,
                   outcome, entry, auditLog, adopted, related, probe, context>>

NextCfg ==
    \/ Construct
    \/ \E m \in Messages, u \in Users : Call(1, m, u)
    \/ Steps(1)
    \/ RaiseStep(1)

SpecCfg == InitCfg /\ [][NextCfg]_vars

(***************************************************************************)
(* is_uws_related beside evaluate: a caller asks once whether a message is *)
(* UWS-related, before, during (while the audit write is awaited) or after *)
(* an evaluate call on the same engine.                                    *)
(***************************************************************************)
\* is_uws_related(m), lines 322-343: a synchronous method, it runs while no
\* coroutine does and touches nothing but its own locals
IsUwsRelated(m) ==
    /\ engine = "ready"
    /\ cur = 0
    /\ related = NoAnswer
    /\ related' = [asked |-> m, answered |-> TRUE, answer |-> RelatedOf[m]]
    /\ UNCHANGED <<engine, malformed, cur, pc, message, user, local, session, attempts,
                   outcome, entry, auditLog, result, adopted, probe, context>>

NextRel ==
    \/ Construct
    \/ \E m \in RelatedMessages : IsUwsRelated(m)
    \/ \E m \in ConcMessages, u \in Users : Call(1, m, u)
    \/ Steps(1)

SpecRel == Init /\ [][NextRel]_vars

(***************************************************************************)
(* The pure helpers called directly: a caller hands one of them arguments  *)
(* of its own choice, once, and keeps what it returned.                    *)
(***************************************************************************)
MaxViolations == 3
MaxPatterns == 4

RECURSIVE ListsOver(_, _)
ListsOver(S, n) ==
    IF n = 0 THEN {<<>>}
    ELSE LET shorter == ListsOver(S, n - 1)
         IN  shorter \cup {Append(l, x) : l \in {k \in shorter : Len(k) = n - 1}, x \in S}

\* the violations lists handed to _generate_response_message
ViolationLists == ListsOver(ViolationType, MaxViolations)

\* the rule names that go with a violations list: the pre-seed's name throughout,
\* or the names of catalog rules in catalog order
NameLists(v) ==
    {[i \in 1..Len(v) |-> "low_academic_relevance"],
     [i \in 1..Len(v) |-> _initialize_rules[i].name]}

\* a GuardrailRule holding the given patterns
RuleOf(patterns) ==
    [name |-> "probe_rule", violation_type |-> "off_topic", severity |-> "medium",
     action |-> "redirect", patterns |-> patterns, redirect_message |-> MsgOffTopic]

\* a pattern that matches ProbeMessage and one that does not
HitPattern == Word({"exam"})
MissPattern == Word({"weather"})
ProbeMessage == "exam timetable"
ProbeRules == {RuleOf(l) : l \in ListsOver({HitPattern, MissPattern}, MaxPatterns)}

\* messages naming one keyword several times
Repeats == {"exam exam exam", "uws uws", "exam, exam and the uws exam"}
RelevanceMessages == LoweredMessages \cup Repeats

GenerateResponseMessage(v, t) ==
    /\ engine = "ready"
    /\ cur = 0
    /\ probe = NoProbe
    /\ probe' = [fn |-> "_generate_response_message", violations |-> v,
                 triggered_rules |-> t, value |-> _generate_response_message(v, t)]
    /\ UNCHANGED <<engine, malformed, cur, pc, message, user, local, session, attempts,
                   outcome, entry, auditLog, result, adopted, related, context>>

CheckRule(m, r) ==
    /\ engine = "ready"
    /\ cur = 0
    /\ probe = NoProbe
    /\ probe' = [fn |-> "_check_rule", msg |-> m, rule |-> r, value |-> _check_rule(m, r)]
    /\ UNCHANGED <<engine, malformed, cur, pc, message, user, local, session, attempts,
                   outcome, entry, auditLog, result, adopted, related, context>>

CalculateAcademicRelevance(m) ==
    /\ engine = "ready"
    /\ cur = 0
    /\ probe = NoProbe
    /\ probe' = [fn |-> "_calculate_academic_relevance", msg |-> m,
                 value |-> _calculate_academic_relevance(m)]
    /\ UNCHANGED <<engine, malformed, cur, pc, message, user, local, session, attempts,
                   outcome, entry, auditLog, result, adopted, related, context>>

NextPure ==
    \/ Construct
    \/ \E v \in ViolationLists : \E t \in NameLists(v) : GenerateResponseMessage(v, t)
    \/ \E r \in ProbeRules : CheckRule(ProbeMessage, r)
    \/ \E m \in RelevanceMessages : CalculateAcademicRelevance(m)

SpecPure == Init /\ [][NextPure]_vars

(***************************************************************************)
(* The claims.                                                             *)
(***************************************************************************)
Returned(p) == result[p].kind = "verdict"

\* rule i of the catalog triggers on the message of call p
Triggers(p, i) == CheckOf[LowerOf[message[p]]][i][1]

\* the pre-seed of step 3 fires on the message of call p
PreSeeds(p) == LowRelevance(RelevanceOf[LowerOf[message[p]]])

Count(x, s) == Cardinality({i \in 1..Len(s) : s[i] = x})

\* C1: in every verdict evaluate returns, is_allowed is true exactly when the
\* action is not block: allow, warn and redirect verdicts are allowed, every block
\* verdict is not.
C1_AllowedIffNotBlock ==
    \A p \in Procs : Returned(p) =>
        /\ result[p].is_allowed = (result[p].action # "block")
        /\ result[p].action \in {"allow", "warn", "redirect"} => result[p].is_allowed
        /\ result[p].action = "block" => ~ result[p].is_allowed

C1_Witness ==
    \E p \in Procs : Returned(p) /\ result[p].action = "block" /\ ~ result[p].is_allowed

\* rule i is of the class that escalates over the pre-seed and the medium rules
HighClass(i) == _initialize_rules[i].severity \in {"high", "critical"}

C3_MessageOfAdoptedRule ==
    \A p \in Procs : Returned(p) =>
        /\ result[p].action = "block" =>
              /\ adopted[p] # 0
              /\ result[p].message = _initialize_rules[adopted[p]].redirect_message
        /\ (result[p].action = "redirect" /\ adopted[p] # 0) =>
              result[p].message = _initialize_rules[adopted[p]].redirect_message

\* C4 as stated: no violation type occurs twice in the violations of a verdict.
C4_NoDuplicateViolation ==
    \A p \in Procs : Returned(p) =>
        \A v \in ViolationType : Count(v, result[p].violations) <= 1

\* C4 as amended: every violation type but off_topic occurs at most once in
\* violations; off_topic occurs at most twice, and twice exactly when the
\* low-relevance pre-seed and the rule non_academic_topics both fired in the call.
C4_DuplicateOnlyOffTopic ==
    \A p \in Procs : Returned(p) =>
        /\ \A v \in ViolationType \ {"off_topic"} : Count(v, result[p].violations) <= 1
        /\ Count("off_topic", result[p].violations) <= 2
        /\ Count("off_topic", result[p].violations) = 2
              <=> (PreSeeds(p) /\ Triggers(p, 1))
        /\ Len(result[p].violations) = Len(result[p].triggered_rules)

C4_Witness ==
    \E p \in Procs : Returned(p) /\ Count("off_topic", result[p].violations) = 2

\* C5: a verdict with no violations has action allow and the empty message, and
\* comes from a call in which no catalog rule triggered and the pre-seed did not
\* fire.
C5_EmptyViolationsAllow ==
    \A p \in Procs : (Returned(p) /\ result[p].violations = <<>>) =>
        /\ result[p].action = "allow"
        /\ result[p].message = ""
        /\ ~ PreSeeds(p)
        /\ \A i \in 1..NumRules : ~ Triggers(p, i)

C5_Witness ==
    \E p \in Procs : Returned(p) /\ result[p].violations = <<>> /\ message[p] # ""

\* C6: evaluate never raises, whether the audit write succeeds or fails: a call
\* whose write failed still ends with a verdict, and that verdict equals, field for
\* field, the verdict of a call on the same message whose write was committed.
C6_AuditFailureHarmless ==
    /\ \A p \in Procs : pc[p] # "raised" /\ result[p].kind # "raised"
    /\ \A p \in Procs : outcome[p] = "failed" => pc[p] \in {"return", "done"}
    /\ \A p \in Procs : pc[p] = "done" => Returned(p)
    /\ \A p, q \in Procs :
          (/\ pc[p] = "done" /\ pc[q] = "done"
           /\ message[p] = message[q]
           /\ outcome[p] = "failed" /\ outcome[q] = "committed")
              => result[p] = result[q]

C6_Witness ==
    \E p, q \in Procs :
        /\ pc[p] = "done" /\ pc[q] = "done"
        /\ message[p] = message[q]
        /\ outcome[p] = "failed" /\ outcome[q] = "committed"
        /\ Returned(p) /\ Returned(q)

\* C7: no engine exists whose catalog holds an uncompilable pattern: construction
\* fails on such a catalog.
C7_NoEngineWithBadPattern == engine = "ready" => malformed = {}

\* C8: a fault raised while rules are matched does not reach the caller: every
\* call that has ended has ended with a verdict (the degraded one after a fault:
\* no violations, allowed, action allow, empty message).
C8_FaultDegrades ==
    \A p \in Procs :
        /\ result[p].kind # "raised"
        /\ (pc[p] \in {"done", "raised"} /\ local[p].rule \in malformed) =>
              /\ Returned(p)
              /\ result[p].violations = <<>>
              /\ result[p].is_allowed
              /\ result[p].action = "allow"
              /\ result[p].message = ""

\* C9 as stated: the verdict goes back to the caller without waiting for the audit
\* write: while the write is pending, the call can return.
C9_ReturnsWhilePending ==
    \A p \in Procs : outcome[p] = "pending" => ENABLED Return(p)

\* C9 as amended: evaluate awaits the audit write; a verdict with violations is
\* returned only once the write attempt has ended, committed or failed, and no
\* call returns while its write is pending.  What the caller does not wait on is
\* the success of the write: a failed write returns the verdict as well.
C9_ReturnsAfterWriteEnded ==
    \A p \in Procs :
        /\ outcome[p] = "pending" => (pc[p] = "commit" /\ ~ Returned(p))
        /\ (Returned(p) /\ result[p].violations # <<>>) =>
              outcome[p] \in {"committed", "failed"}
        /\ (Returned(p) /\ result[p].violations = <<>>) => outcome[p] = "none"

C9_Witness ==
    \E p \in Procs : Returned(p) /\ result[p].violations # <<>> /\ outcome[p] = "failed"

\* C10: a call begins exactly one audit write when its violations are non-empty
\* and none when they are empty; the write begins only after the whole catalog has
\* been processed, never once per triggered rule, and is never retried.
C10_OneWritePerViolatingCall ==
    \A p \in Procs :
        /\ pc[p] \in {"idle", "seed", "rules", "log"} => attempts[p] = 0
        /\ pc[p] \in {"commit", "return", "done"} =>
              attempts[p] = IF local[p].violations # <<>> THEN 1 ELSE 0
        /\ attempts[p] > 0 => local[p].rule > NumRules

C10_Witness ==
    \E p \in Procs :
        /\ pc[p] = "done"
        /\ attempts[p] = 1
        /\ outcome[p] = "failed"
        /\ Len(local[p].triggered_rules) >= 3

\* C11: the session opened for the audit write is held only while its commit is
\* awaited; it is released once the write has ended, in success or in a failure of
\* the record, the add or the commit, so a call that goes on to return, and a call
\* that has returned, holds no session, whatever the other calls are doing.
C11_SessionReleased ==
    \A p \in Procs :
        /\ session[p] = "open" => pc[p] = "commit" /\ outcome[p] = "pending"
        /\ outcome[p] \in {"committed", "failed"} => session[p] # "open"
        /\ pc[p] \in {"return", "done"} => session[p] # "open"
        /\ Returned(p) => session[p] # "open"

\* a call has returned after its commit failed, its session closed, while another
\* call holds its own session open
C11_Witness ==
    \E p, q \in Procs :
        /\ Returned(p) /\ attempts[p] = 1 /\ outcome[p] = "failed"
        /\ entry[p] # NoEntry /\ session[p] = "closed"
        /\ session[q] = "open"

\* C12: every call, whatever calls it is interleaved with at their audit writes,
\* comes to its return with, and returns, the verdict that evaluate gives its
\* message when it runs alone on the engine (the catalog and the keyword lists are
\* what the constructor built throughout, no step of evaluate writing them).
C12_VerdictAsAlone ==
    \A p \in Procs :
        /\ pc[p] = "return" => GuardrailResult(local[p]) = AloneOf[message[p]]
        /\ Returned(p) => result[p] = AloneOf[message[p]]

\* a call that found a violation is about to return while another call is
\* suspended at the commit of its own write
C12_Witness ==
    \E p, q \in Procs :
        /\ cur = p /\ pc[p] = "return" /\ attempts[p] = 1
        /\ pc[q] = "commit" /\ message[q] # message[p]

InUnit(c) == c[2] > 0 /\ 0 <= c[1] /\ c[1] <= c[2]

\* C14: for the message of every call, the relevance score lies in [0, 1] (0..10
\* tenths), the confidence of every rule of the catalog is matched / total with
\* matched <= total, every confidence the call has collected and the confidence of
\* its verdict lie in [0, 1], and the verdict's severity and action are members of
\* their enumerations.
C14_Ranges ==
    \A p \in Procs :
        pc[p] # "idle" =>
            /\ local[p].academic_score \in 0..10
            /\ \A i \in 1..NumRules :
                  LET c == CheckOf[local[p].message_lower][i][2]
                  IN  InUnit(c) /\ c[2] = Len(_initialize_rules[i].patterns)
            /\ \A i \in 1..Len(local[p].confidence_scores) :
                  InUnit(local[p].confidence_scores[i])
            /\ local[p].max_severity \in Severity
            /\ local[p].final_action \in Action
            /\ Returned(p) =>
                  /\ InUnit(result[p].confidence)
                  /\ result[p].severity \in Severity
                  /\ result[p].action \in Action

\* the verdict of a message with more than ten weighted keyword hits: its
\* confidence is the capped relevance, 1
C14_Witness ==
    \E p \in Procs :
        /\ Returned(p)
        /\ result[p].triggered_rules = <<>>
        /\ result[p].confidence = <<10, 10>>
        /\ message[p] \in KeywordRich

PasswordQuestion == "What is my password for the student portal?"

\* the index in the catalog of the rule of that name
RuleNamed(name) == CHOOSE i \in 1..NumRules : _initialize_rules[i].name = name

\* the rules of the catalog that trigger on the message of call p
Triggered(p) == {i \in 1..NumRules : Triggers(p, i)}

\* the part of C15 that does not depend on the number of matching patterns:
\* personal_info_fishing is the one rule that triggers and the verdict is HIGH,
\* BLOCK, not allowed, with that rule's redirect_message
PasswordVerdict(p) ==
    /\ Triggered(p) = {RuleNamed("personal_info_fishing")}
    /\ result[p].severity = "high"
    /\ result[p].action = "block"
    /\ result[p].is_allowed = FALSE
    /\ result[p].message = _initialize_rules[RuleNamed("personal_info_fishing")].redirect_message

\* C15 as stated: on "What is my password for the student portal?" exactly 1 of the
\* 4 patterns of personal_info_fishing matches, so the rule's confidence is 0.25, not
\* above 0.3, and the rule triggers only through the at-least-one-match clause; the
\* verdict is HIGH, BLOCK, not allowed, with that rule's redirect_message.
C15_OneOfFourPatterns ==
    \A p \in Procs :
        (Returned(p) /\ message[p] = PasswordQuestion) =>
            LET c == CheckOf[LowerOf[message[p]]][RuleNamed("personal_info_fishing")][2]
            IN  /\ c = <<1, 4>>
                /\ ~Above03(c)
                /\ PasswordVerdict(p)

\* C15 amended: on "What is my password for the student portal?" exactly 2 of the 4
\* patterns of personal_info_fishing match (the word `password` and `what.*password`),
\* so the rule's confidence is 0.5 and both clauses of the trigger test hold; the
\* verdict carries that confidence and is HIGH, BLOCK, not allowed, with that rule's
\* redirect_message.
C15_TwoOfFourPatterns ==
    \A p \in Procs :
        (Returned(p) /\ message[p] = PasswordQuestion) =>
            LET rule == _initialize_rules[RuleNamed("personal_info_fishing")]
                c == CheckOf[LowerOf[message[p]]][RuleNamed("personal_info_fishing")][2]
            IN  /\ c = <<2, 4>>
                /\ Above03(c)
                /\ {i \in 1..Len(rule.patterns) :
                        ReSearch(rule.patterns[i], LowerOf[message[p]])} = {1, 3}
                /\ result[p].confidence = c
                /\ PasswordVerdict(p)

C15_Witness ==
    \E p \in Procs :
        /\ Returned(p) /\ message[p] = PasswordQuestion
        /\ result[p].triggered_rules = <<"low_academic_relevance", "personal_info_fishing">>

CheatQuestion == "Can you help me cheat on my exam?"

\* C16: on "Can you help me cheat on my exam?" the relevance is below 0.3, the
\* pre-seed puts OFF_TOPIC first, academic_integrity is the one rule that triggers,
\* and the verdict is HIGH, BLOCK, not allowed, with the academic-dishonesty text and
\* not the off-topic text.  On every message: when the pre-seed has fired and a rule
\* of severity HIGH or CRITICAL triggers, the verdict's severity and action are those
\* of such a rule, not the pre-seeded MEDIUM and REDIRECT.
C16_HighOverridesPreSeed ==
    \A p \in Procs :
        Returned(p) =>
            /\ message[p] = CheatQuestion =>
                  /\ PreSeeds(p)
                  /\ Triggered(p) = {RuleNamed("academic_integrity")}
                  /\ result[p].violations = <<"off_topic", "harmful_content">>
                  /\ result[p].severity = "high"
                  /\ result[p].action = "block"
                  /\ result[p].is_allowed = FALSE
                  /\ result[p].message =
                        _initialize_rules[RuleNamed("academic_integrity")].redirect_message
                  /\ result[p].message = MsgDishonesty
                  /\ result[p].message # MsgOffTopic
            /\ (PreSeeds(p) /\ \E i \in Triggered(p) : HighClass(i)) =>
                  /\ \E i \in Triggered(p) :
                        /\ HighClass(i)
                        /\ result[p].severity = _initialize_rules[i].severity
                        /\ result[p].action = _initialize_rules[i].action
                  /\ result[p].severity \in {"high", "critical"}
                  /\ result[p].action = "block"
                  /\ result[p].is_allowed = FALSE

C16_Witness ==
    \E p \in Procs :
        /\ Returned(p) /\ message[p] = CheatQuestion
        /\ result[p].triggered_rules = <<"low_academic_relevance", "academic_integrity">>
        /\ adopted[p] = RuleNamed("academic_integrity")

ExamQuestion == "When is my Computer Science module exam at Paisley campus?"

\* C17: on every message whose relevance is at least 0.3 and on which no rule of the
\* catalog triggers, the verdict has no violations and no triggered rules, severity
\* LOW, action ALLOW, is_allowed true, the empty message and the relevance score as
\* its confidence, and no audit write is attempted; "When is my Computer Science
\* module exam at Paisley campus?", of relevance 0.5, is such a message.
C17_CleanVerdict ==
    \A p \in Procs :
        /\ (pc[p] # "idle" /\ message[p] = ExamQuestion) =>
              /\ RelevanceOf[LowerOf[message[p]]] = 5
              /\ ~PreSeeds(p)
              /\ Triggered(p) = {}
        /\ (pc[p] # "idle" /\ ~PreSeeds(p) /\ Triggered(p) = {}) =>
              /\ attempts[p] = 0 /\ outcome[p] = "none" /\ session[p] = "none"
              /\ auditLog = <<>>
              /\ Returned(p) =>
                    result[p] = [kind |-> "verdict",
                                 is_allowed |-> TRUE,
                                 violations |-> <<>>,
                                 severity |-> "low",
                                 action |-> "allow",
                                 message |-> "",
                                 confidence |-> <<RelevanceOf[LowerOf[message[p]]], 10>>,
                                 triggered_rules |-> <<>>]

C17_Witness ==
    \E p \in Procs :
        /\ pc[p] = "done" /\ Returned(p) /\ message[p] = ExamQuestion
        /\ result[p].confidence = <<5, 10>>
        /\ attempts[p] = 0

\* the elements of a list
Range(items) == {items[i] : i \in 1..Len(items)}

\* the answer C18 states for each message
RelatedAsStated ==
    [m \in RelatedMessages |->
        LET lowered == Lower(m)
        IN  \/ \E indicator \in Range(uws_indicators) : Contains(lowered, indicator)
            \/ /\ \E term \in Range(academic_terms) : Contains(lowered, term)
               /\ \E word \in Range(question_words) : Contains(lowered, word)]

C18_Answer ==
    /\ related.answered => related.answer = RelatedAsStated[related.asked]
    /\ (related.answered /\ related.asked = "weather today") => related.answer = FALSE
    /\ (related.answered /\ related.asked = "What time is my lecture?") =>
          related.answer = TRUE
    /\ \A p \in Procs : Returned(p) => result[p] = AloneOf[message[p]]

C18_Apart ==
    /\ (\E p \in Procs : pc'[p] # pc[p]) => related' = related
    /\ related' # related =>
          UNCHANGED <<pc, local, result, session, attempts, outcome, entry, auditLog, probe, context>>

\* C18: is_uws_related returns true exactly when the lower-cased message contains an
\* institution indicator, or an academic term together with a question word: false
\* on "weather today", true on "What time is my lecture?".  It stands apart from
\* evaluate: no step of an evaluate call calls it or changes its answer, a call of it
\* changes nothing of an evaluate call, and the verdict of a call is the verdict of
\* its message whatever is_uws_related was asked and answered.
C18_RelatedPredicate == []C18_Answer /\ [][C18_Apart]_vars

\* is_uws_related has answered true on the lecture question, and an evaluate call
\* on the same engine has returned
C18_Witness ==
    /\ related.answered
    /\ related.asked = "What time is my lecture?" /\ related.answer = TRUE
    /\ \E p \in Procs : Returned(p)

\* the least element of a non-empty set of rule indices: the first in catalog order
First(S) == CHOOSE i \in S : \A j \in S : i <= j

PairOf(i) == <<_initialize_rules[i].severity, _initialize_rules[i].action>>

\* The <<severity, action>> that C19 gives call p once the rules before rule k have
\* been tried, and the rule it was adopted from (0 for none).
ResolvedBefore(p, k) ==
    LET tried == {i \in Triggered(p) : i < k}
        high == {i \in tried : HighClass(i)}
        medium == {i \in tried : _initialize_rules[i].severity = "medium"}
    IN  IF high # {} THEN <<PairOf(First(high)), First(high)>>
        ELSE IF PreSeeds(p) THEN <<(<<"medium", "redirect">>), 0>>
        ELSE IF medium # {} THEN <<PairOf(First(medium)), First(medium)>>
        ELSE <<(<<"low", "allow">>), 0>>

SeverityLevel(s) ==
    CASE s = "low" -> 0 [] s = "medium" -> 1 [] s = "high" -> 2 [] s = "critical" -> 3

ActionLevel(a) ==
    CASE a = "allow" -> 0 [] a = "warn" -> 1 [] a = "redirect" -> 2 [] a = "block" -> 3

C20_StepUp ==
    \A p \in Procs :
        /\ SeverityLevel(local'[p].max_severity) >= SeverityLevel(local[p].max_severity)
        /\ ActionLevel(local'[p].final_action) >= ActionLevel(local[p].final_action)

\* C20: in every step of an evaluate call, from its first line through the pre-seed
\* and each iteration over the catalog to its return, the resolved severity and the
\* resolved action stay at their level or move to a higher one.
C20_NeverDecreases == [][C20_StepUp]_vars

\* a call whose severity has gone from LOW to the pre-seeded MEDIUM and then to the
\* HIGH of a rule, with a triggering rule still to be tried
C20_Witness ==
    \E p \in Procs :
        /\ pc[p] = "rules" /\ local[p].rule <= NumRules
        /\ PreSeeds(p)
        /\ local[p].max_severity = "high" /\ local[p].final_action = "block"
        /\ Triggers(p, local[p].rule)

(***************************************************************************)
(* The pure helpers, claim by claim.                                       *)
(***************************************************************************)
Asked(fn) == probe.fn = fn

\* the text the priority order gives a set of violation types
PriorityText(types) ==
    IF types = {} THEN ""
    ELSE IF "inappropriate_content" \in types THEN MsgInappropriate
    ELSE IF "personal_info_request" \in types THEN MsgPersonalInfo
    ELSE IF "harmful_content" \in types THEN MsgDishonesty
    ELSE IF types \cap {"off_topic", "non_academic"} # {} THEN MsgOffTopic
    ELSE IF "external_service" \in types THEN MsgExternal
    ELSE MsgGeneric

ResponseOf == [v \in ViolationLists |-> _generate_response_message(v, <<>>)]

\* C21: the message _generate_response_message returns is the text the fixed priority
\* order (inappropriate content, personal information, harmful content, off-topic or
\* non-academic, external service, generic fallback) gives the set of violation types
\* in the list, and every list holding the same set of types, in whatever order and
\* under whatever rule names, gets the same message.
C21_MessageBySetOfTypes ==
    Asked("_generate_response_message") =>
        /\ probe.value = PriorityText(Range(probe.violations))
        /\ \A w \in ViolationLists :
              Range(w) = Range(probe.violations) => ResponseOf[w] = probe.value

\* a list where the type listed first is not the type that decides the message
C21_Witness ==
    /\ Asked("_generate_response_message")
    /\ probe.violations = <<"external_service", "off_topic", "inappropriate_content">>
    /\ probe.triggered_rules[1] = "low_academic_relevance"
    /\ probe.value = MsgInappropriate

\* the number of patterns of a probe rule that match ProbeMessage, by construction
HitsIn(patterns) == Cardinality({i \in 1..Len(patterns) : patterns[i] = HitPattern})

\* C22: for a rule of which k of its P patterns match, _check_rule returns the
\* confidence k / P (0 when P = 0) and triggered = (confidence > 0.3 or k >= 1); the
\* ratio clause never decides: triggered holds exactly when k >= 1, so a triggered
\* rule has a confidence above 0 and a rule without patterns never triggers.
C22_TriggeredIffAnyMatch ==
    Asked("_check_rule") =>
        LET P == Len(probe.rule.patterns)
            k == HitsIn(probe.rule.patterns)
            triggered == probe.value[1]
            confidence == probe.value[2]
        IN  /\ confidence = IF P > 0 THEN <<k, P>> ELSE <<0, 1>>
            /\ triggered = (Above03(confidence) \/ k >= 1)
            /\ Above03(confidence) => k >= 1
            /\ triggered = (k >= 1)
            /\ triggered => confidence[1] > 0
            /\ P = 0 => ~triggered

\* one hit among four patterns: 0.25 is not above 0.3, the rule triggers all the same
C22_Witness ==
    /\ Asked("_check_rule")
    /\ Len(probe.rule.patterns) = 4
    /\ HitsIn(probe.rule.patterns) = 1
    /\ probe.value = <<TRUE, <<1, 4>>>>
    /\ ~Above03(probe.value[2])

\* the keywords of a list that occur in a message, as a set
Occurring(keywords, m) == {w \in Range(keywords) : Contains(m, w)}

\* a + 2u for a message: a distinct academic and u distinct institution keywords occur
WeightedCount(m) ==
    Cardinality(Occurring(_load_academic_keywords, m))
        + 2 * Cardinality(Occurring(_load_uws_keywords, m))

\* C23: _calculate_academic_relevance returns min((a + 2u) / 10, 1.0) where a and u are
\* the numbers of distinct academic and institution keywords occurring as substrings
\* of the message: a keyword counts once however often it occurs, the result is 0 for
\* the empty message and for a message without keywords, it is 1.0 whenever
\* a + 2u >= 10, and every message gets a value in [0, 1].  (Scores are in tenths.)
C23_Relevance ==
    Asked("_calculate_academic_relevance") =>
        /\ probe.value = Min(WeightedCount(probe.msg), 10)
        /\ probe.value \in 0..10
        /\ WeightedCount(probe.msg) = 0 => probe.value = 0
        /\ probe.msg = "" => probe.value = 0
        /\ WeightedCount(probe.msg) >= 10 => probe.value = 10

\* a message naming "exam" three times and "uws" once: a = 1, u = 1, score 0.3
C23_Witness ==
    /\ Asked("_calculate_academic_relevance")
    /\ probe.msg = "exam, exam and the uws exam"
    /\ Occurrences(probe.msg, "exam") = 3
    /\ probe.value = 3

(***************************************************************************)
(* The evaluate call, claim by claim (continued).                          *)
(***************************************************************************)
WeightedCountOf == [m \in LoweredMessages |-> WeightedCount(m)]

\* a + 2u of the message of call p
Weighted(p) == WeightedCountOf[LowerOf[message[p]]]

\* call p has run its pre-seed and no rule of the catalog yet
BeforeFirstRule(p) == pc[p] = "rules" /\ local[p].rule = 1

\* the verdict of a message that only the pre-seed flags
OffTopicOnly ==
    [kind |-> "verdict", is_allowed |-> TRUE, violations |-> <<"off_topic">>,
     severity |-> "medium", action |-> "redirect", message |-> MsgOffTopic,
     confidence |-> <<0, 10>>, triggered_rules |-> <<"low_academic_relevance">>]

\* C24: before any rule is checked, OFF_TOPIC and "low_academic_relevance" are put
\* first in the lists and (MEDIUM, REDIRECT) is adopted exactly when the relevance is
\* below 0.3, i.e. when the weighted keyword count is at most 2 (a count of exactly 3
\* does not pre-seed); a message that triggers no rule and holds no keyword, the
\* empty message included, gets the verdict [OFF_TOPIC], ["low_academic_relevance"],
\* MEDIUM, REDIRECT, allowed, confidence 0, with the off-topic text.
C24_PreSeed ==
    \A p \in Procs :
        /\ BeforeFirstRule(p) =>
              /\ local[p].confidence_scores = <<>>
              /\ IF Weighted(p) <= 2
                 THEN /\ local[p].violations = <<"off_topic">>
                      /\ local[p].triggered_rules = <<"low_academic_relevance">>
                      /\ local[p].max_severity = "medium"
                      /\ local[p].final_action = "redirect"
                 ELSE /\ local[p].violations = <<>>
                      /\ local[p].triggered_rules = <<>>
                      /\ local[p].max_severity = "low"
                      /\ local[p].final_action = "allow"
        /\ Returned(p) =>
              /\ InSeq("low_academic_relevance", result[p].triggered_rules) = (Weighted(p) <= 2)
              /\ Weighted(p) <= 2 =>
                    /\ result[p].violations[1] = "off_topic"
                    /\ result[p].triggered_rules[1] = "low_academic_relevance"
              /\ (Weighted(p) = 0 /\ Triggered(p) = {}) => result[p] = OffTopicOnly

\* the empty message has been answered
C24_Witness ==
    \E p \in Procs :
        /\ Returned(p)
        /\ message[p] = ""
        /\ Triggered(p) = {}
        /\ result[p] = OffTopicOnly

\* the confidence _check_rule gives rule i on the message of call p
ConfidenceOf(p, i) == CheckOf[LowerOf[message[p]]][i][2]

\* the relevance score of the message of call p, as a confidence
RelevanceConf(p) == <<RelevanceOf[LowerOf[message[p]]], 10>>

\* C25: the confidence of a verdict is the greatest of the confidences of the rules
\* that triggered when at least one did, and the relevance score otherwise; the
\* pre-seed adds no sample, so a verdict flagged by the pre-seed alone carries the
\* relevance score, which is below 0.3.
C25_Confidence ==
    \A p \in Procs : Returned(p) =>
        IF Triggered(p) # {}
        THEN /\ \E i \in Triggered(p) : result[p].confidence = ConfidenceOf(p, i)
             /\ \A i \in Triggered(p) : ConfLeq(ConfidenceOf(p, i), result[p].confidence)
        ELSE /\ result[p].confidence = RelevanceConf(p)
             /\ result[p].violations # <<>> =>
                    /\ result[p].triggered_rules = <<"low_academic_relevance">>
                    /\ ~ConfLeq(<<3, 10>>, result[p].confidence)

\* two rules triggered with different confidences and the verdict carries the greater,
\* which is not the first; the pre-seed flagged the message too
C25_Witness ==
    \E p \in Procs :
        /\ Returned(p)
        /\ PreSeeds(p)
        /\ Triggered(p) = {RuleNamed("personal_info_fishing"), RuleNamed("inappropriate_content")}
        /\ ConfidenceOf(p, RuleNamed("personal_info_fishing")) = <<1, 4>>
        /\ result[p].confidence = <<1, 3>>

\* the verdict of every message when its call runs from the first line to the return
VerdictOf == [m \in Messages |-> evaluate(m)]

\* the log entry agrees with a verdict, field by field
EntryMatches(e, v) ==
    /\ e.metadata.violations = v.violations
    /\ e.metadata.triggered_rules = v.triggered_rules
    /\ e.violation_type = JoinComma(v.violations)
    /\ e.rule_triggered = JoinComma(v.triggered_rules)
    /\ e.severity = v.severity
    /\ e.action_taken = v.action

\* C26: the audit record of a call carries the caller's user id, the message as it
\* was sent (not lower-cased) and the violations, triggered rule names, severity and
\* action of the verdict the call returns; it is built only after the whole catalog
\* has been processed, and only such records are stored.
C26_AuditRecord ==
    /\ \A p \in Procs : entry[p] # NoEntry =>
           /\ local[p].rule > NumRules
           /\ pc[p] \in {"commit", "return", "done"}
           /\ entry[p].user_whatsapp_id = user[p]
           /\ entry[p].user_message = message[p]
           /\ EntryMatches(entry[p], VerdictOf[message[p]])
           /\ Returned(p) => EntryMatches(entry[p], result[p])
    /\ \A k \in 1..Len(auditLog) : \E p \in Procs : auditLog[k] = entry[p]

\* a question with capital letters, flagged by the pre-seed and by a rule, has been
\* answered and its record stored
C26_Witness ==
    \E p \in Procs :
        /\ Returned(p)
        /\ message[p] = "What is my password for the student portal?"
        /\ user[p] = "u2"
        /\ outcome[p] = "committed"
        /\ auditLog = <<entry[p]>>
        /\ entry[p].user_message # local[p].message_lower
        /\ entry[p].rule_triggered = "low_academic_relevance, personal_info_fishing"
        /\ entry[p].action_taken = "block"

\* the catalog rules carrying a name
RulesNamed(name) == {r \in 1..NumRules : _initialize_rules[r].name = name}

\* the positions of a list of names that hold the name of a catalog rule
RulePositions(names) == {i \in 1..Len(names) : names[i] # "low_academic_relevance"}

\* C27: in every verdict violations and triggered_rules have the same length and go
\* together position by position: "low_academic_relevance" with OFF_TOPIC, the name
\* of a catalog rule with that rule's violation type; no name occurs twice,
\* "low_academic_relevance" occurs at the first position only, the rule names follow
\* in catalog order, and there is one confidence sample per rule name.
C27_ParallelLists ==
    \A p \in Procs : Returned(p) =>
        LET v == result[p].violations
            t == result[p].triggered_rules
        IN  /\ Len(v) = Len(t)
            /\ \A i \in 1..Len(t) :
                  IF t[i] = "low_academic_relevance"
                  THEN v[i] = "off_topic" /\ i = 1
                  ELSE \E r \in RulesNamed(t[i]) :
                          /\ Triggers(p, r)
                          /\ v[i] = _initialize_rules[r].violation_type
            /\ \A i, j \in 1..Len(t) : i < j =>
                  /\ t[i] # t[j]
                  /\ i \in RulePositions(t) => RuleNamed(t[i]) < RuleNamed(t[j])
            /\ Len(local[p].confidence_scores) = Cardinality(RulePositions(t))

\* the pre-seed and two rules: three names, three violations, two samples
C27_Witness ==
    \E p \in Procs :
        /\ Returned(p)
        /\ result[p].triggered_rules =
              <<"low_academic_relevance", "non_academic_topics", "inappropriate_content">>
        /\ result[p].violations = <<"off_topic", "off_topic", "inappropriate_content">>
        /\ Len(local[p].confidence_scores) = 2

\* the catalog rules that block
BlockingRules ==
    {RuleNamed("personal_info_fishing"), RuleNamed("inappropriate_content"),
     RuleNamed("academic_integrity")}

\* C28: the severity and the action of a verdict come from one source: the pair is
\* (LOW, ALLOW), the pair (MEDIUM, REDIRECT) of the pre-seed, or the pair of one rule
\* that triggered in the call.  With the shipped catalog the action is BLOCK iff the
\* severity is HIGH or CRITICAL iff personal_info_fishing, inappropriate_content or
\* academic_integrity triggered; the action is REDIRECT iff the severity is MEDIUM;
\* WARN is never returned.
C28_PairFromOneSource ==
    \A p \in Procs : Returned(p) =>
        LET pair == <<result[p].severity, result[p].action>>
            blocks == result[p].action = "block"
        IN  /\ \/ pair = <<"low", "allow">>
               \/ PreSeeds(p) /\ pair = <<"medium", "redirect">>
               \/ \E i \in Triggered(p) : pair = PairOf(i)
            /\ blocks = (result[p].severity \in {"high", "critical"})
            /\ blocks = (Triggered(p) \cap BlockingRules # {})
            /\ (result[p].action = "redirect") = (result[p].severity = "medium")
            /\ result[p].action # "warn"

\* after the pre-seed's (MEDIUM, REDIRECT), a high and a critical rule triggered: the
\* verdict carries the pair of the high rule
C28_Witness ==
    \E p \in Procs :
        /\ Returned(p)
        /\ PreSeeds(p)
        /\ Triggered(p) = {RuleNamed("personal_info_fishing"), RuleNamed("inappropriate_content")}
        /\ result[p].severity = "high"
        /\ result[p].action = "block"

\* the five texts that answer a category of violation
CategoryTexts == {MsgInappropriate, MsgPersonalInfo, MsgDishonesty, MsgOffTopic, MsgExternal}

\* C29: in every verdict these are equivalent: violations is empty; the action is
\* ALLOW; the severity is LOW; the message is the empty string; no audit write was
\* attempted.  A verdict with violations carries one of the five category texts, never
\* the generic fallback text, and the external-service text only when the relevance
\* is at least 0.3 and external_services is the only rule that triggered.
C29_CleanOrCategory ==
    \A p \in Procs : Returned(p) =>
        LET clean == result[p].violations = <<>>
        IN  /\ clean = (result[p].action = "allow")
            /\ clean = (result[p].severity = "low")
            /\ clean = (result[p].message = "")
            /\ clean = (attempts[p] = 0)
            /\ ~clean => result[p].message \in CategoryTexts
            /\ result[p].message # MsgGeneric
            /\ result[p].message = MsgExternal =>
                  /\ ~PreSeeds(p)
                  /\ RelevanceOf[LowerOf[message[p]]] >= 3
                  /\ Triggered(p) = {RuleNamed("external_services")}

\* a relevant message that only external_services flags is answered with the
\* external-service text, and its audit write was attempted
C29_Witness ==
    \E p \in Procs :
        /\ Returned(p)
        /\ message[p] = "UWS exam google"
        /\ result[p].message = MsgExternal
        /\ result[p].violations = <<"external_service">>
        /\ attempts[p] = 1

\* a log entry without the user id
Anonymous(e) == [e EXCEPT !.user_whatsapp_id = ""]

\* C30: the verdict depends on the message only: two calls with the same message
\* return verdicts equal in every field whatever their user ids and contexts are,
\* and their audit writes are attempted alike; of the record only the user id differs
\* with the user, and nothing differs with the context.
C30_MessageOnly ==
    \A p, q \in Procs :
        (message[p] = message[q] /\ Returned(p) /\ Returned(q)) =>
            /\ result[p] = result[q]
            /\ result[p] = VerdictOf[message[p]]
            /\ (attempts[p] = 0) = (attempts[q] = 0)
            /\ (entry[p] # NoEntry /\ entry[q] # NoEntry) =>
                  /\ Anonymous(entry[p]) = Anonymous(entry[q])
                  /\ entry[p].user_whatsapp_id = user[p]
                  /\ entry[q].user_whatsapp_id = user[q]

\* the same question from two users, one of them passing a context: the same
\* blocking verdict, two records that differ in the user id
C30_Witness ==
    \E p, q \in Procs :
        /\ Returned(p) /\ Returned(q)
        /\ message[p] = message[q]
        /\ user[p] # user[q]
        /\ context[p] = NoContext /\ context[q] # NoContext
        /\ result[p].action = "block"
        /\ result[q] = result[p]
        /\ entry[p] # NoEntry /\ entry[q] # NoEntry
        /\ entry[p] # entry[q]

====
